---- MODULE Spec2Model ----
(***************************************************************************)
(* Model of katrain/core/game_node.py: GameNode, the per-node analysis     *)
(* store (update_move_analysis, set_analysis), the metrics derived from    *)
(* it (points_lost, parent_realized_points_lost, candidate_moves,          *)
(* policy_ranking, move_policy_stats) and order_children.                  *)
(*                                                                         *)
(* Python values are modelled as follows.                                  *)
(*   dict        a function whose DOMAIN is the set of keys present        *)
(*   None / x    the sequences << >> and <<x>> (an optional value)         *)
(*   list        a sequence                                                *)
(*   float       an integer (scores are whole points in the inputs used)   *)
(* analysis["moves"] is an insertion-ordered dict: a sequence of           *)
(* <<key, entry>> pairs with distinct keys.                                *)
(***************************************************************************)
EXTENDS Integers, Sequences, FiniteSets, TLC

VARIABLES analysis, ownership, policy, auto_undo, ordered, last

vars == <<analysis, ownership, policy, auto_undo, ordered, last>>

(***************************************************************************)
(* Bounds of the model.                                                    *)
(***************************************************************************)
MaxVisits == 2
MaxOrder == 0

(***************************************************************************)
(* Optional values.                                                        *)
(***************************************************************************)
None == << >>
Some(x) == <<x>>
Val(o) == o[1]

Min(a, b) == IF a <= b THEN a ELSE b

(* {**a, **b}, and dict.update: the keys of b win. *)
DictMerge(a, b) ==
  [k \in (DOMAIN a) \cup (DOMAIN b) |-> IF k \in DOMAIN b THEN b[k] ELSE a[k]]

(* d.get(k, default) *)
DictGet(d, k, default) == IF k \in DOMAIN d THEN d[k] ELSE default

(* d with d[k] = v assigned *)
DictSet(d, k, v) == DictMerge(d, [x \in {k} |-> v])

(* sorted(s, key=...), a stable sort: key[i] is the key of s[i], a pair
   compared as Python compares tuples. The element at input position i goes
   after every element of smaller key and after the earlier elements of
   equal key. *)
KeyLess(a, b) == a[1] < b[1] \/ (a[1] = b[1] /\ a[2] < b[2])

Sorted(s, key) ==
  LET rank(i) == 1 + Cardinality({j \in 1..Len(s) :
                       KeyLess(key[j], key[i]) \/ (~KeyLess(key[i], key[j]) /\ j < i)})
  IN [p \in 1..Len(s) |-> s[CHOOSE i \in 1..Len(s) : rank(i) = p]]

(***************************************************************************)
(* The game tree (SGFNode): a root, a black move A1, a white answer B1 to  *)
(* it, and a white move B1 played at the root as a variation.              *)
(***************************************************************************)
Nodes == {"root", "a", "ab", "b"}

parent == [n \in Nodes |->
  CASE n = "root" -> None
    [] n = "a" -> Some("root")
    [] n = "ab" -> Some("a")
    [] n = "b" -> Some("root")]

(* node.move: a Move (player, gtp()) or None for the root *)
move == [n \in Nodes |->
  CASE n = "root" -> None
    [] n = "a" -> Some([player |-> "B", gtp |-> "A1"])
    [] n = "ab" -> Some([player |-> "W", gtp |-> "B1"])
    [] n = "b" -> Some([player |-> "W", gtp |-> "B1"])]

(* SGFNode.next_player: Black at the root, else the opponent of the mover *)
next_player(n) ==
  IF move[n] = None THEN "B" ELSE IF Val(move[n]).player = "B" THEN "W" ELSE "B"

(* The board: szx = 2, szy = 1; its points in the order
   "for x in range(szx) for y in range(szy)", and the pass move Move(None). *)
BoardPoints == <<"A1", "B1">>
Pass == "pass"
MoveIds == {BoardPoints[i] : i \in 1..Len(BoardPoints)}

(***************************************************************************)
(* GameNode.__init__                                                       *)
(***************************************************************************)
NewNode == [analysis |-> [moves |-> << >>, root |-> None],
            ownership |-> None,
            policy |-> None,
            auto_undo |-> None]

(***************************************************************************)
(* analysis["moves"]: pairs <<key, entry>> in insertion order.             *)
(***************************************************************************)
KeyIndex(moves, k) ==
  IF \E i \in 1..Len(moves) : moves[i][1] = k
    THEN CHOOSE i \in 1..Len(moves) : moves[i][1] = k
    ELSE 0

HasKey(moves, k) == KeyIndex(moves, k) # 0

(* moves[k], for a key that is present *)
Entry(moves, k) == moves[KeyIndex(moves, k)][2]

Keys(moves) == {moves[i][1] : i \in 1..Len(moves)}

StaleOrder == 999
AlternativesOffset == 10

(***************************************************************************)
(* GameNode.update_move_analysis, on the moves dict of one node.           *)
(***************************************************************************)
(* mutant: the default order written after the record's keys, so it wins *)
update_move_analysis_default_last(moves, move_analysis, move_gtp) ==
  LET i == KeyIndex(moves, move_gtp) IN
  IF i = 0
    THEN Append(moves,
           <<move_gtp,
             DictMerge(move_analysis, [move |-> move_gtp, order |-> StaleOrder])>>)
    ELSE LET cur == moves[i][2]
             cur1 == DictSet(cur, "order",
                       Min(cur["order"], DictGet(move_analysis, "order", StaleOrder)))
             cur2 == IF cur1["visits"] < move_analysis["visits"]
                       THEN DictMerge(cur1, move_analysis)
                       ELSE cur1
         IN [moves EXCEPT ![i] = <<move_gtp, cur2>>]

(* mutant: the record is taken whatever its visits *)
update_move_analysis_unconditional(moves, move_analysis, move_gtp) ==
  LET i == KeyIndex(moves, move_gtp) IN
  IF i = 0
    THEN Append(moves,
           <<move_gtp,
             DictMerge([move |-> move_gtp, order |-> StaleOrder], move_analysis)>>)
    ELSE LET cur == moves[i][2]
             cur1 == DictSet(cur, "order",
                       Min(cur["order"], DictGet(move_analysis, "order", StaleOrder)))
         IN [moves EXCEPT ![i] = <<move_gtp, DictMerge(cur1, move_analysis)>>]

update_move_analysis(moves, move_analysis, move_gtp) ==
  LET i == KeyIndex(moves, move_gtp) IN
  IF i = 0
    THEN Append(moves,
           <<move_gtp,
             DictMerge([move |-> move_gtp, order |-> StaleOrder], move_analysis)>>)
    ELSE LET cur == moves[i][2]
             cur1 == DictSet(cur, "order",
                       Min(cur["order"], DictGet(move_analysis, "order", StaleOrder)))
             cur2 == IF cur1["visits"] < move_analysis["visits"]
                       THEN DictMerge(cur1, move_analysis)
                       ELSE cur1
         IN [moves EXCEPT ![i] = <<move_gtp, cur2>>]

(* for move_analysis in moveInfos: self.update_move_analysis(...) *)
RECURSIVE MergeAll(_, _)
MergeAll(moves, moveInfos) ==
  IF moveInfos = << >> THEN moves
  ELSE MergeAll(update_move_analysis(moves, Head(moveInfos), Head(moveInfos)["move"]),
                Tail(moveInfos))

(* mutant: the offset is not applied *)
OffsetOrders_dropped(moveInfos) == moveInfos

(* for m in moveInfos: m["order"] += 10 *)
OffsetOrders(moveInfos) ==
  [i \in 1..Len(moveInfos) |->
     DictSet(moveInfos[i], "order", moveInfos[i]["order"] + AlternativesOffset)]

(* mutant: only the first entry is reset *)
ResetOrders_first_only(moves) ==
  [i \in 1..Len(moves) |->
     IF i = 1 THEN <<moves[i][1], DictSet(moves[i][2], "order", StaleOrder)>>
     ELSE moves[i]]

(* for move_dict in moves.values(): move_dict["order"] = 999 *)
ResetOrders(moves) ==
  [i \in 1..Len(moves) |-> <<moves[i][1], DictSet(moves[i][2], "order", StaleOrder)>>]

(* analysis_json["moveInfos"][0]["pv"] if analysis_json["moveInfos"] else [] *)
PvTail(moveInfos) == IF moveInfos # << >> THEN moveInfos[1]["pv"] ELSE << >>

(***************************************************************************)
(* GameNode.set_analysis on the state st = [analysis, ownership, policy]   *)
(* of all nodes: the state it leaves, and whether it raised. A result      *)
(* without the key "moveInfos" raises KeyError where the key is first      *)
(* read: at once in refine and alternatives mode, after the reset of the   *)
(* orders in a primary merge. refine_move is None or the gtp() of a Move.  *)
(***************************************************************************)
HasParentAndMove(n) == parent[n] # None /\ move[n] # None

(* mutant: the node's move is not prepended *)
RootInfoWithPv_tail_only(n, analysis_json) ==
  DictSet(analysis_json["rootInfo"], "pv", PvTail(analysis_json["moveInfos"]))

(* analysis_json["rootInfo"] after line 125 has assigned its "pv" *)
RootInfoWithPv(n, analysis_json) ==
  DictSet(analysis_json["rootInfo"], "pv",
          <<Val(move[n]).gtp>> \o PvTail(analysis_json["moveInfos"]))

(* the record a refine merge hands to update_move_analysis *)
RefineRecord(analysis_json, refine_move) ==
  DictMerge([pv |-> <<Val(refine_move)>> \o PvTail(analysis_json["moveInfos"])],
            analysis_json["rootInfo"])

(* mutant: the parent's entry is assigned, not merged *)
BackPropagate_assigned(an, n, rootInfo) ==
  [an EXCEPT ![Val(parent[n])].moves =
     LET g == Val(move[n]).gtp
         rec == DictMerge([move |-> g, order |-> StaleOrder], rootInfo)
     IN IF HasKey(@, g) THEN [@ EXCEPT ![KeyIndex(@, g)] = <<g, rec>>]
        ELSE Append(@, <<g, rec>>)]

(* self.parent.update_move_analysis(analysis_json["rootInfo"], self.move.gtp()) *)
BackPropagate(an, n, rootInfo) ==
  [an EXCEPT ![Val(parent[n])].moves =
     update_move_analysis(@, rootInfo, Val(move[n]).gtp)]

(* mutant: analysis["root"] is assigned in alternatives mode too *)
set_analysis_root_always(st, n, analysis_json, refine_move, alternatives_mode) ==
  LET missing == "moveInfos" \notin DOMAIN analysis_json
      ok(new) == [st |-> new, raised |-> FALSE]
      raise(new) == [st |-> new, raised |-> TRUE]
  IN
  IF refine_move # None
    THEN IF missing THEN raise(st)
         ELSE ok([st EXCEPT !.analysis[n].moves =
                    update_move_analysis(@, RefineRecord(analysis_json, refine_move),
                                         Val(refine_move))])
    ELSE
      IF alternatives_mode /\ missing THEN raise(st)
      ELSE
        LET reset == IF ~alternatives_mode
                       THEN ResetOrders(st.analysis[n].moves)
                       ELSE st.analysis[n].moves
        IN
        IF missing THEN raise([st EXCEPT !.analysis[n].moves = reset])
        ELSE
          LET moveInfos == IF alternatives_mode
                             THEN OffsetOrders(analysis_json["moveInfos"])
                             ELSE analysis_json["moveInfos"]
              merged == MergeAll(reset, moveInfos)
              rootInfo == IF HasParentAndMove(n)
                            THEN RootInfoWithPv(n, analysis_json)
                            ELSE analysis_json["rootInfo"]
              own == [st.analysis EXCEPT
                        ![n] = [moves |-> merged,
                                root |-> Some(rootInfo)]]
              an == IF HasParentAndMove(n) THEN BackPropagate(own, n, rootInfo) ELSE own
          IN ok([analysis |-> an,
                 ownership |-> [st.ownership EXCEPT
                                  ![n] = DictGet(analysis_json, "ownership", None)],
                 policy |-> [st.policy EXCEPT
                               ![n] = DictGet(analysis_json, "policy", None)]])

set_analysis(st, n, analysis_json, refine_move, alternatives_mode) ==
  LET missing == "moveInfos" \notin DOMAIN analysis_json
      ok(new) == [st |-> new, raised |-> FALSE]
      raise(new) == [st |-> new, raised |-> TRUE]
  IN
  IF refine_move # None
    THEN IF missing THEN raise(st)
         ELSE ok([st EXCEPT !.analysis[n].moves =
                    update_move_analysis(@, RefineRecord(analysis_json, refine_move),
                                         Val(refine_move))])
    ELSE
      IF alternatives_mode /\ missing THEN raise(st)
      ELSE
        LET reset == IF ~alternatives_mode
                       THEN ResetOrders(st.analysis[n].moves)
                       ELSE st.analysis[n].moves
        IN
        IF missing THEN raise([st EXCEPT !.analysis[n].moves = reset])
        ELSE
          LET moveInfos == IF alternatives_mode
                             THEN OffsetOrders(analysis_json["moveInfos"])
                             ELSE analysis_json["moveInfos"]
              merged == MergeAll(reset, moveInfos)
              rootInfo == IF HasParentAndMove(n)
                            THEN RootInfoWithPv(n, analysis_json)
                            ELSE analysis_json["rootInfo"]
              own == [st.analysis EXCEPT
                        ![n] = [moves |-> merged,
                                root |-> IF ~alternatives_mode
                                           THEN Some(rootInfo) ELSE @.root]]
              an == IF HasParentAndMove(n) THEN BackPropagate(own, n, rootInfo) ELSE own
          IN ok([analysis |-> an,
                 ownership |-> [st.ownership EXCEPT
                                  ![n] = DictGet(analysis_json, "ownership", None)],
                 policy |-> [st.policy EXCEPT
                               ![n] = DictGet(analysis_json, "policy", None)]])

(***************************************************************************)
(* The state machine. last records the latest delivery: its mode, its node *)
(* and whether set_analysis raised; ordered records the latest call of     *)
(* order_children: the list it was given and the list it returned.         *)
(***************************************************************************)
State == [analysis |-> analysis, ownership |-> ownership, policy |-> policy]

Mode(refine_move, alternatives_mode) ==
  IF refine_move # None THEN "refine"
  ELSE IF alternatives_mode THEN "alternatives" ELSE "primary"

Init ==
  /\ analysis = [n \in Nodes |-> NewNode.analysis]
  /\ ownership = [n \in Nodes |-> NewNode.ownership]
  /\ policy = [n \in Nodes |-> NewNode.policy]
  /\ auto_undo = [n \in Nodes |-> NewNode.auto_undo]
  /\ ordered = [children |-> << >>, result |-> << >>]
  /\ last = [op |-> "init", node |-> "root", raised |-> FALSE]

(* the engine's callback: lambda result: self.set_analysis(result, refine_move,
   find_alternatives) *)
SetAnalysis(n, analysis_json, refine_move, alternatives_mode) ==
  LET r == set_analysis(State, n, analysis_json, refine_move, alternatives_mode) IN
  /\ analysis' = r.st.analysis
  /\ ownership' = r.st.ownership
  /\ policy' = r.st.policy
  /\ last' = [op |-> Mode(refine_move, alternatives_mode), node |-> n,
              raised |-> r.raised]
  /\ UNCHANGED <<auto_undo, ordered>>

(***************************************************************************)
(* Derived metrics, read from the state of node n. A result that can raise *)
(* is a record: exc names the exception ("" when the call returns).        *)
(***************************************************************************)
analysis_ready(n) == analysis[n].root # None

(* score: analysis["root"].get("scoreLead") when ready, else None *)
score(n) ==
  IF analysis_ready(n)
    THEN DictGet(Val(analysis[n].root), "scoreLead", None)
    ELSE None

(* {"B": 1, "W": -1, None: 0}[player]; the player None is the string "None" *)
player_sign(player) ==
  CASE player = "B" -> [exc |-> "", value |-> 1]
    [] player = "W" -> [exc |-> "", value |-> -1]
    [] player = "None" -> [exc |-> "", value |-> 0]
    [] OTHER -> [exc |-> "KeyError", value |-> 0]

(* mutant: the difference taken the other way round *)
points_lost_swapped(n) ==
  IF move[n] # None /\ parent[n] # None /\ analysis_ready(n)
       /\ analysis_ready(Val(parent[n]))
    THEN LET parent_score == score(Val(parent[n]))
             sign == player_sign(Val(move[n]).player)
         IN IF sign.exc # "" THEN [exc |-> sign.exc, value |-> None]
            ELSE [exc |-> "", value |-> Some(sign.value * (score(n) - parent_score))]
    ELSE [exc |-> "", value |-> None]

points_lost(n) ==
  IF move[n] # None /\ parent[n] # None /\ analysis_ready(n)
       /\ analysis_ready(Val(parent[n]))
    THEN LET parent_score == score(Val(parent[n]))
             sign == player_sign(Val(move[n]).player)
         IN IF sign.exc # "" THEN [exc |-> sign.exc, value |-> None]
            ELSE [exc |-> "", value |-> Some(sign.value * (parent_score - score(n)))]
    ELSE [exc |-> "", value |-> None]

(* mutant: the difference taken the other way round *)
parent_realized_points_lost_swapped(n) ==
  IF /\ move[n] # None
     /\ parent[n] # None
     /\ parent[Val(parent[n])] # None
     /\ analysis_ready(n)
     /\ analysis_ready(Val(parent[Val(parent[n])]))
    THEN LET parent_parent_score == score(Val(parent[Val(parent[n])]))
             sign == player_sign(Val(move[n]).player)
         IN IF sign.exc # "" THEN [exc |-> sign.exc, value |-> None]
            ELSE [exc |-> "", value |-> Some(sign.value * (parent_parent_score - score(n)))]
    ELSE [exc |-> "", value |-> None]

parent_realized_points_lost(n) ==
  IF /\ move[n] # None
     /\ parent[n] # None
     /\ parent[Val(parent[n])] # None
     /\ analysis_ready(n)
     /\ analysis_ready(Val(parent[Val(parent[n])]))
    THEN LET parent_parent_score == score(Val(parent[Val(parent[n])]))
             sign == player_sign(Val(move[n]).player)
         IN IF sign.exc # "" THEN [exc |-> sign.exc, value |-> None]
            ELSE [exc |-> "", value |-> Some(sign.value * (score(n) - parent_parent_score))]
    ELSE [exc |-> "", value |-> None]

(* var_to_grid(policy, size)[y][x] for the i-th point of BoardPoints: on this
   one-row board the i-th value of the flat policy *)
var_to_grid(pol, i) == pol[i]

(* policy_ranking: None without policy, else the (probability, Move) pairs of
   every board point and of the pass move, sorted by descending probability *)
policy_ranking(n) ==
  IF policy[n] = None \/ policy[n] = Some(<< >>) THEN None
  ELSE LET pol == Val(policy[n])
           moves == [i \in 1..(Len(BoardPoints) + 1) |->
                       IF i <= Len(BoardPoints)
                         THEN <<var_to_grid(pol, i),
                                [player |-> next_player(n), gtp |-> BoardPoints[i]]>>
                         ELSE <<pol[Len(pol)], [player |-> next_player(n), gtp |-> Pass]>>]
           key == [i \in 1..Len(moves) |-> <<-moves[i][1], 0>>]
       IN Some(Sorted(moves, key))

(* Move.__eq__: the same coordinates and the same player *)
MoveEq(m1, m2) == m1.gtp = m2.gtp /\ m1.player = m2.player

(* move_policy_stats: (rank, probability, ranking); iterating over the None
   that policy_ranking returns without policy raises TypeError *)
move_policy_stats(n) ==
  LET notFound == [exc |-> "", rank |-> None, prob |-> 0, ranking |-> << >>] IN
  IF move[n] # None /\ parent[n] # None
    THEN LET ranking == policy_ranking(Val(parent[n])) IN
         IF ranking = None
           THEN [exc |-> "TypeError", rank |-> None, prob |-> 0, ranking |-> << >>]
           ELSE LET r == Val(ranking)
                    hits == {ix \in 1..Len(r) : MoveEq(r[ix][2], Val(move[n]))}
                IN IF hits = {} THEN notFound
                   ELSE LET ix == CHOOSE i \in hits : \A k \in hits : i <= k
                        IN [exc |-> "", rank |-> Some(ix), prob |-> r[ix][1],
                            ranking |-> r]
    ELSE notFound

(* mutant: sorted by point loss first, then by order *)
candidate_moves_loss_first(n) ==
  IF ~analysis_ready(n) THEN << >>
  ELSE IF analysis[n].moves = << >>
    THEN LET polmoves == policy_ranking(n)
             top_polmove == IF polmoves # None /\ Val(polmoves) # << >>
                              THEN Val(polmoves)[1][2].gtp
                              ELSE Pass
         IN <<DictMerge(Val(analysis[n].root),
                        [pointsLost |-> 0, order |-> 0, move |-> top_polmove,
                         pv |-> <<top_polmove>>])>>
    ELSE LET root_score == Val(analysis[n].root)["scoreLead"]
             sign == player_sign(next_player(n)).value
             move_dicts == [i \in 1..Len(analysis[n].moves) |-> analysis[n].moves[i][2]]
             with_loss == [i \in 1..Len(move_dicts) |->
                             DictMerge([pointsLost |->
                                          sign * (root_score - move_dicts[i]["scoreLead"])],
                                       move_dicts[i])]
             key == [i \in 1..Len(with_loss) |->
                       <<with_loss[i]["pointsLost"], with_loss[i]["order"]>>]
         IN Sorted(with_loss, key)

(* mutant: the fallback takes the last entry of the ranking *)
candidate_moves_last_policy(n) ==
  IF ~analysis_ready(n) THEN << >>
  ELSE IF analysis[n].moves = << >>
    THEN LET polmoves == policy_ranking(n)
             top_polmove == IF polmoves # None /\ Val(polmoves) # << >>
                              THEN Val(polmoves)[Len(Val(polmoves))][2].gtp
                              ELSE Pass
         IN <<DictMerge(Val(analysis[n].root),
                        [pointsLost |-> 0, order |-> 0, move |-> top_polmove,
                         pv |-> <<top_polmove>>])>>
    ELSE LET root_score == Val(analysis[n].root)["scoreLead"]
             sign == player_sign(next_player(n)).value
             move_dicts == [i \in 1..Len(analysis[n].moves) |-> analysis[n].moves[i][2]]
             with_loss == [i \in 1..Len(move_dicts) |->
                             DictMerge([pointsLost |->
                                          sign * (root_score - move_dicts[i]["scoreLead"])],
                                       move_dicts[i])]
             key == [i \in 1..Len(with_loss) |->
                       <<with_loss[i]["order"], with_loss[i]["pointsLost"]>>]
         IN Sorted(with_loss, key)

(* candidate_moves: a list of dicts *)
candidate_moves(n) ==
  IF ~analysis_ready(n) THEN << >>
  ELSE IF analysis[n].moves = << >>
    THEN LET polmoves == policy_ranking(n)
             top_polmove == IF polmoves # None /\ Val(polmoves) # << >>
                              THEN Val(polmoves)[1][2].gtp
                              ELSE Pass
         IN <<DictMerge(Val(analysis[n].root),
                        [pointsLost |-> 0, order |-> 0, move |-> top_polmove,
                         pv |-> <<top_polmove>>])>>
    ELSE LET root_score == Val(analysis[n].root)["scoreLead"]
             sign == player_sign(next_player(n)).value
             move_dicts == [i \in 1..Len(analysis[n].moves) |-> analysis[n].moves[i][2]]
             with_loss == [i \in 1..Len(move_dicts) |->
                             DictMerge([pointsLost |->
                                          sign * (root_score - move_dicts[i]["scoreLead"])],
                                       move_dicts[i])]
             key == [i \in 1..Len(with_loss) |->
                       <<with_loss[i]["order"], with_loss[i]["pointsLost"]>>]
         IN Sorted(with_loss, key)

(***************************************************************************)
(* The engine's results (resultPayload): rootInfo {visits, scoreLead, pv?},*)
(* moveInfos of {move, order, visits, scoreLead, pv}, listed best first    *)
(* with distinct moves and no more visits than the root has, ownership?,   *)
(* policy?.                                                                *)
(***************************************************************************)
Visits == 1..MaxVisits
Orders == 0..MaxOrder

RootInfo(v, s) == [visits |-> v, scoreLead |-> s]
MoveInfo(m, o, v, s) ==
  [move |-> m, order |-> o, visits |-> v, scoreLead |-> s, pv |-> <<m>>]

MoveInfosOf(S) ==
  {<< >>} \cup {<<x>> : x \in S}
          \cup {p \in S \X S : p[1]["move"] # p[2]["move"] /\ p[1]["order"] < p[2]["order"]}

MaxVisitsOf(moveInfos) ==
  CHOOSE v \in {moveInfos[i]["visits"] : i \in 1..Len(moveInfos)} :
    \A i \in 1..Len(moveInfos) : moveInfos[i]["visits"] <= v

Json(rootInfo, moveInfos) == [rootInfo |-> rootInfo, moveInfos |-> moveInfos]

(* full results: the root has the visits of its most visited move *)
FullJsons(S, scores) ==
  {Json(RootInfo(MaxVisitsOf(i), s), i) : i \in MoveInfosOf(S) \ {<< >>}, s \in scores}

(* results of a search too short to list moves *)
RootOnlyJsons(scores) == {Json(RootInfo(v, s), << >>) : v \in Visits, s \in scores}

WithPolicy(json, pol) == DictSet(json, "policy", Some(pol))
WithOwnership(json, own) == DictSet(json, "ownership", Some(own))

Primary(N, J) == \E n \in N, j \in J : SetAnalysis(n, j, None, FALSE)
Alternatives(N, J) == \E n \in N, j \in J : SetAnalysis(n, j, None, TRUE)
Refine(N, J, M) == \E n \in N, j \in J, m \in M : SetAnalysis(n, j, Some(m), FALSE)

(***************************************************************************)
(* Spec: every kind of merge on the node "a", in any order and number,     *)
(* with its child "ab" analysed too (and propagating back into it) and its *)
(* parent "root" receiving what "a" propagates back.                       *)
(***************************************************************************)
MergeScores == {0}
MergeMoveInfos ==
  {MoveInfo(m, o, v, s) : m \in MoveIds, o \in Orders, v \in Visits, s \in MergeScores}
MergeJsons == FullJsons(MergeMoveInfos, MergeScores) \cup RootOnlyJsons(MergeScores)
MergeRefineJsons == RootOnlyJsons(MergeScores)
ChildJsons == {Json(RootInfo(MaxVisits, s), << >>) : s \in MergeScores}

Next ==
  \/ Primary({"a"}, MergeJsons)
  \/ Alternatives({"a"}, MergeJsons)
  \/ Refine({"a"}, MergeRefineJsons, MoveIds)
  \/ Primary({"ab"}, ChildJsons)

Spec == Init /\ [][Next]_vars

(***************************************************************************)
(* SpecTree: primary analyses of the positions of the tree with their      *)
(* scores, at the root with or without policy and ownership, listing no    *)
(* moves (at "a" also the best move), and refinements of the move A1 at    *)
(* the root by a result that carries a pv of its own.                      *)
(***************************************************************************)
TreeScores == [n \in Nodes |->
  CASE n = "root" -> {3}
    [] n = "a" -> {1, -2}
    [] n = "ab" -> {-5}
    [] n = "b" -> {0}]

(* policies <<A1, B1, pass>> in hundredths: B1 on top; pass on top *)
TreePolicy == <<10, 70, 20>>
PassPolicy == <<20, 20, 60>>
TreeOwnership == <<1, -1>>

TreeJsons(n) ==
  LET plain == RootOnlyJsons(TreeScores[n]) IN
  CASE n = "root" ->
         LET first == {j \in plain : j["rootInfo"]["visits"] = 1} IN
         first \cup {WithOwnership(WithPolicy(j, TreePolicy), TreeOwnership) : j \in first}
               \cup {WithPolicy(j, PassPolicy) : j \in first}
    [] n = "a" ->
         plain \cup {Json(RootInfo(MaxVisits, 1), <<MoveInfo("B1", 0, MaxVisits, 1)>>)}
    [] OTHER -> plain

TreeRefineJsons == {Json(DictSet(RootInfo(MaxVisits, 1), "pv", <<"B1">>), << >>)}

TreePrimary(n) == Primary({n}, TreeJsons(n))

NextTree ==
  \/ TreePrimary("root")
  \/ TreePrimary("a")
  \/ TreePrimary("ab")
  \/ Refine({"root"}, TreeRefineJsons, {"A1"})

SpecTree == Init /\ [][NextTree]_vars

(***************************************************************************)
(* The calls of update_move_analysis that the deliveries of Spec make in   *)
(* the current state: the moves dict the call finds, the record and the    *)
(* key it is given.                                                        *)
(***************************************************************************)
Call(moves, rec, key) == [moves |-> moves, rec |-> rec, key |-> key]

(* the calls of "for move_analysis in moveInfos", one after the other *)
LoopCalls(moves, moveInfos) ==
  {Call(MergeAll(moves, SubSeq(moveInfos, 1, i - 1)), moveInfos[i], moveInfos[i]["move"]) :
     i \in 1..Len(moveInfos)}

PrimaryCalls(n, J) ==
  UNION {LoopCalls(ResetOrders(analysis[n].moves), j["moveInfos"]) : j \in J}
AlternativesCalls(n, J) ==
  UNION {LoopCalls(analysis[n].moves, OffsetOrders(j["moveInfos"])) : j \in J}
RefineCalls(n, J) ==
  {Call(analysis[n].moves, RefineRecord(j, Some(m)), m) : j \in J, m \in MoveIds}
BackPropagationCalls(n, J) ==
  {Call(analysis[Val(parent[n])].moves, RootInfoWithPv(n, j), Val(move[n]).gtp) : j \in J}

UpdateCalls ==
  PrimaryCalls("a", MergeJsons) \cup AlternativesCalls("a", MergeJsons)
    \cup RefineCalls("a", MergeRefineJsons)
    \cup BackPropagationCalls("a", MergeJsons)
    \cup BackPropagationCalls("ab", ChildJsons)

(* the records update_move_analysis is given for the move m *)
RecordsFor(m) ==
  {r \in MergeMoveInfos : r["move"] = m}
    \cup {DictSet(r, "order", r["order"] + AlternativesOffset) :
            r \in {x \in MergeMoveInfos : x["move"] = m}}
    \cup {RefineRecord(j, Some(m)) : j \in MergeRefineJsons}

OrderOf(rec) == DictGet(rec, "order", StaleOrder)

(***************************************************************************)
(* C1. Order non-regression: a call of update_move_analysis for a move     *)
(* that has an entry leaves the stored order at the minimum of the stored  *)
(* order and the incoming order (999 when the record has none).            *)
(***************************************************************************)
C1_OrderNonRegression ==
  \A c \in UpdateCalls :
    HasKey(c.moves, c.key) =>
      Entry(update_move_analysis(c.moves, c.rec, c.key), c.key)["order"]
        = Min(Entry(c.moves, c.key)["order"], OrderOf(c.rec))

(***************************************************************************)
(* C2. Monotonic-visits merge: for a move without entry and two records    *)
(* r1, r2 for it with fewer visits in r1, merging r1 then r2 and merging   *)
(* r2 then r1 store the same entry: the visits and every field of r2,      *)
(* except the order, which is the minimum of the two orders.               *)
(***************************************************************************)
C2_MonotonicVisitsMerge ==
  \A n \in Nodes, m \in MoveIds :
    ~HasKey(analysis[n].moves, m) =>
      \A r1 \in RecordsFor(m), r2 \in RecordsFor(m) :
        r1["visits"] < r2["visits"] =>
          LET moves == analysis[n].moves
              e12 == Entry(update_move_analysis(update_move_analysis(moves, r1, m), r2, m), m)
              e21 == Entry(update_move_analysis(update_move_analysis(moves, r2, m), r1, m), m)
          IN /\ e12 = e21
             /\ e12["visits"] = r2["visits"]
             /\ \A k \in (DOMAIN r2) \ {"order"} : e12[k] = r2[k]
             /\ e12["order"] = Min(OrderOf(r1), OrderOf(r2))

(* the moves a result lists *)
ListedMoves(analysis_json) ==
  {analysis_json["moveInfos"][i]["move"] : i \in 1..Len(analysis_json["moveInfos"])}

(***************************************************************************)
(* C5. Full-analysis reset: in the state a primary merge on a node leaves, *)
(* every entry of the node for a move the result does not list has order   *)
(* 999.                                                                    *)
(***************************************************************************)
C5_FullAnalysisReset ==
  \A n \in Nodes, j \in MergeJsons :
    LET after == set_analysis(State, n, j, None, FALSE).st.analysis[n].moves IN
    \A k \in Keys(after) \ ListedMoves(j) : Entry(after, k)["order"] = StaleOrder

(* a primary merge on "a" has just left one entry ranked by the result and
   another, which the result did not list, stale *)
C5_Witness ==
  /\ last.op = "primary" /\ last.node = "a"
  /\ \E k1 \in Keys(analysis["a"].moves), k2 \in Keys(analysis["a"].moves) :
       /\ Entry(analysis["a"].moves, k1)["order"] = StaleOrder
       /\ Entry(analysis["a"].moves, k2)["order"] \in Orders

(***************************************************************************)
(* C6. The per-move merge is idempotent: for every stored state of a move  *)
(* entry and every record, calling update_move_analysis a second time with *)
(* the same record and move leaves the moves dict as the first call left   *)
(* it.                                                                     *)
(***************************************************************************)
C6_MergeIdempotent ==
  \A n \in Nodes, m \in MoveIds : \A r \in RecordsFor(m) :
    LET once == update_move_analysis(analysis[n].moves, r, m) IN
    update_move_analysis(once, r, m) = once

(* after a delivery, "a" holds an entry that a record with more visits and a
   worse order would overwrite, and lacks an entry for another move *)
C6_Witness ==
  /\ last.op # "init"
  /\ \E m \in MoveIds : \E r \in RecordsFor(m) :
       /\ HasKey(analysis["a"].moves, m)
       /\ Entry(analysis["a"].moves, m)["visits"] < r["visits"]
       /\ Entry(analysis["a"].moves, m)["order"] < OrderOf(r)
  /\ \E m \in MoveIds : ~HasKey(analysis["a"].moves, m)

(***************************************************************************)
(* C7. Visits never regress: no step removes a move entry of a node or     *)
(* lowers its stored visit count.                                          *)
(***************************************************************************)
C7_VisitsNeverRegress ==
  [][\A n \in Nodes, m \in MoveIds :
       HasKey(analysis[n].moves, m) =>
         /\ HasKey(analysis'[n].moves, m)
         /\ Entry(analysis'[n].moves, m)["visits"] >= Entry(analysis[n].moves, m)["visits"]]_vars

(* "a" holds an entry with the most visits while results with fewer visits
   for the same move can still arrive, and its child has propagated back *)
C7_Witness ==
  /\ analysis_ready("ab")
  /\ \E c \in UpdateCalls :
       /\ c.moves = analysis["a"].moves
       /\ HasKey(c.moves, c.key)
       /\ Entry(c.moves, c.key)["visits"] = MaxVisits
       /\ c.rec["visits"] < MaxVisits

(***************************************************************************)
(* Claims about the tree, checked under SpecTree.                          *)
(***************************************************************************)
NonRoot == {n \in Nodes : HasParentAndMove(n)}

(* a list of candidate dicts has one for the move g whose pv begins with g *)
HasCandidate(cands, g) ==
  \E i \in 1..Len(cands) :
    cands[i]["move"] = g /\ cands[i]["pv"] # << >> /\ cands[i]["pv"][1] = g

(***************************************************************************)
(* C3 as stated. Parent back-propagation: when a primary merge on a        *)
(* non-root node has completed, the parent's candidate_moves has an entry  *)
(* for the child's move whose pv begins with that move, whatever the       *)
(* parent's state was.                                                     *)
(***************************************************************************)
C3_ParentCandidateAlways ==
  (last.op = "primary" /\ ~last.raised /\ last.node \in NonRoot) =>
    HasCandidate(candidate_moves(Val(parent[last.node])), Val(move[last.node]).gtp)

(***************************************************************************)
(* C3 as amended. A step that is a primary merge on a non-root node leaves *)
(* in the parent's analysis.moves an entry for the child's move; its pv    *)
(* begins with that move when the parent had no entry for the move or one  *)
(* with fewer visits than the delivered root stats; and the parent's       *)
(* candidate_moves has that entry when the parent is analysis-ready and is *)
(* empty when it is not.                                                   *)
(***************************************************************************)
C3_ParentBackPropagation ==
  [][\A n \in NonRoot :
     (last'.op = "primary" /\ ~last'.raised /\ last'.node = n) =>
       LET p == Val(parent[n])
           g == Val(move[n]).gtp
           before == analysis[p].moves
           after == analysis'[p].moves
           stored == \/ ~HasKey(before, g)
                     \/ Entry(before, g)["visits"] < Val(analysis'[n].root)["visits"]
           cands == candidate_moves(p)'
       IN /\ HasKey(after, g)
          /\ Entry(after, g)["move"] = g
          /\ stored => Entry(after, g)["pv"] # << >> /\ Entry(after, g)["pv"][1] = g
          /\ IF analysis'[p].root # None
               THEN \E i \in 1..Len(cands) :
                      /\ cands[i]["move"] = g
                      /\ cands[i]["pv"] = Entry(after, g)["pv"]
                      /\ cands[i]["visits"] = Entry(after, g)["visits"]
               ELSE cands = << >>]_vars

(* a primary merge on "a" has just completed under an analysis-ready root,
   whose candidates now list A1 with the pv A1 followed by a's best move *)
C3_Witness ==
  /\ last.op = "primary" /\ last.node = "a" /\ ~last.raised
  /\ analysis_ready("root")
  /\ \E i \in 1..Len(candidate_moves("root")) :
       /\ candidate_moves("root")[i]["move"] = "A1"
       /\ candidate_moves("root")[i]["pv"] = <<"A1", "B1">>

(* the scores of the two examples of the point-loss sign *)
BlackExample ==
  /\ analysis_ready("root") /\ analysis_ready("a")
  /\ score("root") = 3 /\ score("a") = 1
WhiteExample ==
  /\ analysis_ready("a") /\ analysis_ready("ab")
  /\ score("a") = -2 /\ score("ab") = -5

(***************************************************************************)
(* C4 as stated. Point-loss sign: Black moving from +3 to +1 loses 2       *)
(* points; White moving from -2 to -5 loses 3 points.                      *)
(***************************************************************************)
C4_PointLossSignAsStated ==
  /\ BlackExample => points_lost("a") = [exc |-> "", value |-> Some(2)]
  /\ WhiteExample => points_lost("ab") = [exc |-> "", value |-> Some(3)]

(***************************************************************************)
(* C4 as amended. Black moving from +3 to +1 has points_lost 2; White      *)
(* moving from -2 to -5 has points_lost -3: sign(W) * (parent - own)       *)
(* = -1 * (-2 - (-5)).                                                     *)
(***************************************************************************)
C4_PointLossSign ==
  /\ BlackExample => points_lost("a") = [exc |-> "", value |-> Some(2)]
  /\ WhiteExample => points_lost("ab") = [exc |-> "", value |-> Some(-3)]

(* the white move "ab" and its parent are analysed with the scores -5, -2 *)
C4_Witness == WhiteExample /\ last.op = "primary"

(***************************************************************************)
(* C8. Candidate fallback: candidate_moves is empty for a node that is not *)
(* analysis-ready, whatever entries it has; for an analysis-ready node     *)
(* without entries it is one candidate with point loss 0 and order 0 for   *)
(* the top move of policy_ranking, or for the pass move without policy;    *)
(* so it is never empty for an analysis-ready node.                        *)
(***************************************************************************)
C8_CandidateFallback ==
  \A n \in Nodes :
    LET cands == candidate_moves(n) IN
    /\ ~analysis_ready(n) => cands = << >>
    /\ analysis_ready(n) => cands # << >>
    /\ (analysis_ready(n) /\ analysis[n].moves = << >>) =>
         /\ Len(cands) = 1
         /\ cands[1]["pointsLost"] = 0
         /\ cands[1]["order"] = 0
         /\ cands[1]["move"] =
              IF policy_ranking(n) = None THEN Pass
              ELSE Val(policy_ranking(n))[1][2].gtp

(* the root is analysis-ready with a policy and no entries, its top policy
   move being a board point, while "a" has an entry from its child and no
   analysis of its own *)
C8_Witness ==
  /\ analysis_ready("root") /\ analysis["root"].moves = << >>
  /\ policy["root"] = Some(TreePolicy)
  /\ candidate_moves("root")[1]["move"] = "B1"
  /\ ~analysis_ready("a") /\ analysis["a"].moves # << >>

(***************************************************************************)
(* C9. move_policy_stats never raises: it gives the 1-based rank and the   *)
(* probability of the node's move in the parent's policy_ranking when the  *)
(* move is in it, and (None, 0.0) in every other case, the parent without  *)
(* policy included.                                                        *)
(***************************************************************************)
C9_MovePolicyStats ==
  \A n \in Nodes :
    LET r == move_policy_stats(n)
        ranking == IF parent[n] = None THEN None ELSE policy_ranking(Val(parent[n]))
        found == /\ move[n] # None /\ ranking # None
                 /\ \E ix \in 1..Len(Val(ranking)) : MoveEq(Val(ranking)[ix][2], Val(move[n]))
    IN /\ r.exc = ""
       /\ found => /\ r.rank # None
                   /\ MoveEq(Val(ranking)[Val(r.rank)][2], Val(move[n]))
                   /\ r.prob = Val(ranking)[Val(r.rank)][1]
       /\ ~found => r.rank = None /\ r.prob = 0

(***************************************************************************)
(* C10 as stated. parent_realized_points_lost is a number exactly when the *)
(* node, its parent and its grandparent are analysis-ready, and is then    *)
(* sign(mover) * (own score - grandparent score).                          *)
(***************************************************************************)
Grandchildren == {n \in NonRoot : parent[Val(parent[n])] # None}

C10_RealizedNeedsAllThree ==
  \A n \in Grandchildren :
    LET p == Val(parent[n])
        g == Val(parent[p])
        r == parent_realized_points_lost(n)
    IN /\ r.exc = ""
       /\ IF analysis_ready(n) /\ analysis_ready(p) /\ analysis_ready(g)
            THEN r.value =
                   Some(player_sign(Val(move[n]).player).value * (score(n) - score(g)))
            ELSE r.value = None

(***************************************************************************)
(* C10 as amended. parent_realized_points_lost is a number exactly when    *)
(* the node and its grandparent are analysis-ready, whether or not the     *)
(* parent is, and is then sign(mover) * (own score - grandparent score).   *)
(***************************************************************************)
C10_RealizedPointsLost ==
  \A n \in Grandchildren :
    LET g == Val(parent[Val(parent[n])])
        r == parent_realized_points_lost(n)
    IN /\ r.exc = ""
       /\ IF analysis_ready(n) /\ analysis_ready(g)
            THEN r.value =
                   Some(player_sign(Val(move[n]).player).value * (score(n) - score(g)))
            ELSE r.value = None

(* "ab" and the root are analysed, "a" between them is not: the metric of
   "ab" is 8 = -1 * (-5 - 3) *)
C10_Witness ==
  /\ analysis_ready("ab") /\ analysis_ready("root") /\ ~analysis_ready("a")
  /\ parent_realized_points_lost("ab") = [exc |-> "", value |-> Some(8)]

(***************************************************************************)
(* SpecRank: primary and alternatives merges on the root, the primary      *)
(* results ranking their moves first (order 0..MaxOrder) or far down a     *)
(* long list of candidates (order 11), the alternatives results ranking    *)
(* theirs from 0.                                                          *)
(***************************************************************************)
RankScores == {0}
LowOrder == AlternativesOffset + 1
RankPrimaryInfos ==
  {MoveInfo(m, o, v, s) :
     m \in MoveIds, o \in Orders \cup {LowOrder}, v \in Visits, s \in RankScores}
RankPrimaryJsons == FullJsons(RankPrimaryInfos, RankScores)
RankAlternativesInfos ==
  {MoveInfo(m, o, v, s) : m \in MoveIds, o \in Orders, v \in Visits, s \in RankScores}
RankAlternativesJsons == FullJsons(RankAlternativesInfos, RankScores)

NextRank ==
  \/ Primary({"root"}, RankPrimaryJsons)
  \/ Alternatives({"root"}, RankAlternativesJsons)

SpecRank == Init /\ [][NextRank]_vars

(* the state after the deliveries js[1], js[2], ... in alternatives mode on n *)
RECURSIVE AfterAlternatives(_, _, _)
AfterAlternatives(st, n, js) ==
  IF js = << >> THEN st
  ELSE AfterAlternatives(set_analysis(st, n, Head(js), None, TRUE).st, n, Tail(js))

(***************************************************************************)
(* C11. Alternatives never outrank primary: after a primary merge on a     *)
(* node followed by alternatives-mode merges on it, no entry for a move    *)
(* that the primary result did not list and that an alternatives merge     *)
(* introduced has a stored order lower than that of an entry for a move    *)
(* the primary result listed.                                              *)
(***************************************************************************)
C11_AlternativesNeverOutrank ==
  \A p \in RankPrimaryJsons :
    \A js \in {<<a1>> : a1 \in RankAlternativesJsons}
                \cup (RankAlternativesJsons \X RankAlternativesJsons) :
      LET n == "root"
          s1 == set_analysis(State, n, p, None, FALSE).st
          s2 == AfterAlternatives(s1, n, js)
          before == s1.analysis[n].moves
          after == s2.analysis[n].moves
      IN \A k1 \in ListedMoves(p), k2 \in Keys(after) \ Keys(before) :
           Entry(after, k2)["order"] >= Entry(after, k1)["order"]

(***************************************************************************)
(* C12. Alternatives offset: an alternatives-mode merge stores every move  *)
(* of its result that had no entry before the merge with the order the     *)
(* result declares plus 10.                                                *)
(***************************************************************************)
C12_AlternativesOffset ==
  \A n \in Nodes, j \in RankAlternativesJsons :
    LET before == analysis[n].moves
        after == set_analysis(State, n, j, None, TRUE).st.analysis[n].moves
    IN \A i \in 1..Len(j["moveInfos"]) :
         LET m == j["moveInfos"][i] IN
         ~HasKey(before, m["move"]) =>
           /\ HasKey(after, m["move"])
           /\ Entry(after, m["move"])["order"] = m["order"] + AlternativesOffset

(* an alternatives merge has just left an entry at a declared order plus 10
   on the root, which still lacks an entry for another move *)
C12_Witness ==
  /\ last.op = "alternatives" /\ last.node = "root"
  /\ \E m \in MoveIds, o \in Orders :
       /\ HasKey(analysis["root"].moves, m)
       /\ Entry(analysis["root"].moves, m)["order"] = o + AlternativesOffset
  /\ \E m \in MoveIds : ~HasKey(analysis["root"].moves, m)

(***************************************************************************)
(* GameNode.order_children(children): sorted by the key "0.5 if auto_undo  *)
(* is None else int(auto_undo)". The keys are counted in halves: 0 for     *)
(* False (kept), 1 for None (unknown), 2 for True (undone).                *)
(***************************************************************************)
int(b) == IF b THEN 1 ELSE 0

order_children_key(c) ==
  IF auto_undo[c] = None THEN 1 ELSE 2 * int(Val(auto_undo[c]))

(* mutant: an unknown auto_undo weighs as False does, int(bool(auto_undo)) *)
order_children_none_as_kept(children) ==
  LET key == [i \in 1..Len(children) |->
                <<IF auto_undo[children[i]] = None THEN 0
                  ELSE 2 * int(Val(auto_undo[children[i]])), 0>>]
  IN Sorted(children, key)

order_children(children) ==
  LET key == [i \in 1..Len(children) |-> <<order_children_key(children[i]), 0>>]
  IN Sorted(children, key)

(***************************************************************************)
(* SpecOrder: nodes with any auto_undo markers, set by the teaching logic  *)
(* before the lists of nodes are ordered; order_children is called on any  *)
(* list of distinct nodes.                                                 *)
(***************************************************************************)
AutoUndo == {None, Some(FALSE), Some(TRUE)}

ChildLists ==
  UNION {{cs \in [1..k -> Nodes] : \A i, j \in 1..k : cs[i] = cs[j] => i = j} :
           k \in 0..Cardinality(Nodes)}

InitOrder ==
  /\ analysis = [n \in Nodes |-> NewNode.analysis]
  /\ ownership = [n \in Nodes |-> NewNode.ownership]
  /\ policy = [n \in Nodes |-> NewNode.policy]
  /\ auto_undo \in [Nodes -> AutoUndo]
  /\ ordered = [children |-> << >>, result |-> << >>]
  /\ last = [op |-> "init", node |-> "root", raised |-> FALSE]

OrderChildren(children) ==
  /\ ordered' = [children |-> children, result |-> order_children(children)]
  /\ last' = [op |-> "order_children", node |-> "root", raised |-> FALSE]
  /\ UNCHANGED <<analysis, ownership, policy, auto_undo>>

NextOrder == \E children \in ChildLists : OrderChildren(children)

SpecOrder == InitOrder /\ [][NextOrder]_vars

(* the weight the ordering is stated with: Kept 0, Unknown 0.5, Undone 1,
   in halves *)
Kept == Some(FALSE)
Unknown == None
Undone == Some(TRUE)
Weight(c) ==
  CASE auto_undo[c] = Kept -> 0
    [] auto_undo[c] = Unknown -> 1
    [] auto_undo[c] = Undone -> 2

PositionIn(s, x) == CHOOSE i \in 1..Len(s) : s[i] = x

(***************************************************************************)
(* C13. order_children returns a permutation of its input, sorted          *)
(* ascending by weight (Kept, then Unknown, then Undone), in which         *)
(* children of equal weight keep their input order; so a list of an        *)
(* Undone, an Unknown and a Kept child, however arranged, comes out as     *)
(* Kept, Unknown, Undone.                                                  *)
(***************************************************************************)
C13_OrderChildren ==
  LET cs == ordered.children
      out == ordered.result
  IN /\ Len(out) = Len(cs)
     /\ {out[i] : i \in 1..Len(out)} = {cs[i] : i \in 1..Len(cs)}
     /\ \A i, j \in 1..Len(out) : i < j => Weight(out[i]) <= Weight(out[j])
     /\ \A i, j \in 1..Len(cs) :
          (i < j /\ Weight(cs[i]) = Weight(cs[j])) =>
            PositionIn(out, cs[i]) < PositionIn(out, cs[j])
     /\ (Len(cs) = 3 /\ {auto_undo[cs[i]] : i \in 1..3} = {Kept, Unknown, Undone}) =>
          <<auto_undo[out[1]], auto_undo[out[2]], auto_undo[out[3]]>>
            = <<Kept, Unknown, Undone>>

(* order_children was given an Undone, an Unknown and a Kept child in this
   order and also two children of equal weight *)
C13_Witness ==
  /\ last.op = "order_children"
  /\ Len(ordered.children) = 4
  /\ <<auto_undo[ordered.children[1]], auto_undo[ordered.children[2]],
       auto_undo[ordered.children[3]], auto_undo[ordered.children[4]]>>
       = <<Undone, Unknown, Kept, Unknown>>
  /\ ordered.result = <<ordered.children[3], ordered.children[2],
                        ordered.children[4], ordered.children[1]>>

(* the values a player tag can take: Black, White, the absent player, and a
   tag that is none of them *)
PlayerTags == {"B", "W", "None", "X"}

(***************************************************************************)
(* C14. player_sign returns +1 for Black and -1 for White and raises for   *)
(* every other player value, the absent player included: where a point     *)
(* loss is computed (the node and its parent analysed), a mover that is    *)
(* neither Black nor White yields an error, never a number.                *)
(***************************************************************************)
C14_PlayerSignRejects ==
  \A n \in NonRoot :
    (analysis_ready(n) /\ analysis_ready(Val(parent[n]))) =>
      \A player \in PlayerTags :
        LET sign == player_sign(player)
            loss == IF sign.exc # "" THEN None
                    ELSE Some(sign.value * (score(Val(parent[n])) - score(n)))
        IN /\ player = "B" => sign = [exc |-> "", value |-> 1]
           /\ player = "W" => sign = [exc |-> "", value |-> -1]
           /\ player \notin {"B", "W"} => sign.exc # "" /\ loss = None

(***************************************************************************)
(* SpecDelivery: deliveries of every mode on the root, by results that     *)
(* list a move, list none (an empty moveInfos), carry a policy and an      *)
(* ownership or not, or lack the key "moveInfos" altogether.               *)
(***************************************************************************)
DeliveryScores == {0}
MalformedJsons == {[rootInfo |-> RootInfo(v, s)] : v \in Visits, s \in DeliveryScores}
PolicyJsons ==
  {WithOwnership(WithPolicy(j, TreePolicy), TreeOwnership) :
     j \in RootOnlyJsons(DeliveryScores)}
DeliveryJsons == MergeJsons \cup PolicyJsons \cup MalformedJsons
DeliveryRefineJsons == RootOnlyJsons(DeliveryScores) \cup MalformedJsons

NextDelivery ==
  \/ Primary({"root"}, DeliveryJsons)
  \/ Alternatives({"root"}, DeliveryJsons)
  \/ Refine({"root"}, DeliveryRefineJsons, MoveIds)

SpecDelivery == Init /\ [][NextDelivery]_vars

(***************************************************************************)
(* C15. A malformed delivery never raises: set_analysis in primary,        *)
(* alternatives or refine mode completes without error also for a result   *)
(* whose moveInfos is missing or empty, and candidate_moves on the node    *)
(* then falls back to one candidate when the node is analysis-ready        *)
(* without move entries.                                                   *)
(***************************************************************************)
C15_MalformedNeverRaises ==
  last.op \in {"primary", "alternatives", "refine"} =>
    /\ ~last.raised
    /\ (analysis_ready(last.node) /\ analysis[last.node].moves = << >>) =>
         Len(candidate_moves(last.node)) = 1

(***************************************************************************)
(* C17. Only a primary merge overwrites ownership and policy: no step that *)
(* is an alternatives-mode or a refine merge changes the ownership or the  *)
(* policy of any node.                                                     *)
(***************************************************************************)
C17_OnlyPrimaryOverwritesPolicy ==
  [][last'.op \in {"alternatives", "refine"} =>
       (policy' = policy /\ ownership' = ownership)]_vars

Modes == {"primary", "alternatives", "refine"}

(***************************************************************************)
(* C16. A refine merge has exactly the effect of one per-move merge, into  *)
(* the entry of refine_move, of the delivered root stats with the pv       *)
(* refine_move followed by the first moveInfo's pv, also when the root     *)
(* stats carry a pv of their own (so a stored record's pv begins with      *)
(* refine_move); analysis.root, ownership, policy and every other node are *)
(* unchanged. Checked on the refine merges of SpecTree.                    *)
(***************************************************************************)
C16_RefineIsOneMerge ==
  [][\A n \in Nodes :
       (last'.op = "refine" /\ last'.node = n /\ ~last'.raised) =>
         /\ \E m \in MoveIds, j \in TreeRefineJsons :
              LET rec == DictSet(j["rootInfo"], "pv", <<m>> \o PvTail(j["moveInfos"]))
              IN analysis'[n].moves = update_move_analysis(analysis[n].moves, rec, m)
         /\ analysis'[n].root = analysis[n].root
         /\ \A o \in Nodes \ {n} : analysis'[o] = analysis[o]
         /\ ownership' = ownership
         /\ policy' = policy]_vars

(* the results a delivery of Spec on the node n can carry *)
SpecJsons(n) == IF n = "a" THEN MergeJsons ELSE ChildJsons

(***************************************************************************)
(* C18. Cross-node mutation is limited to the parent back-propagation: a   *)
(* set_analysis step on a node n changes neither the ownership, the policy *)
(* or the analysis.root of another node, nor any analysis of a node other  *)
(* than n and its parent; in the parent's analysis.moves only the entry of *)
(* n's move can change, and it changes as update_move_analysis changes it  *)
(* for a record n can propagate.                                           *)
(***************************************************************************)
C18_CrossNodeFrame ==
  [][\A n \in Nodes :
       (last'.op \in Modes /\ last'.node = n) =>
         /\ \A o \in Nodes \ {n} :
              /\ ownership'[o] = ownership[o]
              /\ policy'[o] = policy[o]
              /\ analysis'[o].root = analysis[o].root
              /\ parent[n] # Some(o) => analysis'[o] = analysis[o]
         /\ parent[n] # None =>
              LET g == Val(move[n]).gtp
                  before == analysis[Val(parent[n])].moves
                  after == analysis'[Val(parent[n])].moves
              IN /\ \A k \in Keys(before) \ {g} :
                      HasKey(after, k) /\ Entry(after, k) = Entry(before, k)
                 /\ Keys(after) \subseteq Keys(before) \cup {g}
                 /\ \/ after = before
                    \/ \E j \in SpecJsons(n) :
                         after = update_move_analysis(before, RootInfoWithPv(n, j), g)]_vars

(* "ab" has propagated into "a" while "a", with entries of its own, has
   propagated into the root, which holds the entry with the most visits *)
C18_Witness ==
  /\ last.op \in {"primary", "alternatives"} /\ last.node = "a"
  /\ HasKey(analysis["a"].moves, "B1") /\ HasKey(analysis["a"].moves, "A1")
  /\ analysis_ready("ab")
  /\ HasKey(analysis["root"].moves, "A1")
  /\ Entry(analysis["root"].moves, "A1")["visits"] = MaxVisits
  /\ analysis_ready("a") /\ Val(analysis["a"].root)["visits"] < MaxVisits

(***************************************************************************)
(* C19. analysis.root of a node is absent initially and changes only by a  *)
(* primary merge on that node: no alternatives-mode merge, refine merge or *)
(* merge on another node sets or modifies it, and a node that is           *)
(* analysis-ready stays analysis-ready.                                    *)
(***************************************************************************)
C19_RootOnlyByPrimary ==
  /\ \A n \in Nodes : analysis[n].root = None
  /\ [][\A n \in Nodes :
          /\ analysis'[n].root # analysis[n].root =>
               (last'.op = "primary" /\ last'.node = n)
          /\ analysis_ready(n) => analysis'[n].root # None]_vars

(* "a" is analysis-ready, holds entries, and has just received an
   alternatives-mode merge; its child is analysis-ready too *)
C19_Witness ==
  /\ last.op = "alternatives" /\ last.node = "a"
  /\ analysis_ready("a") /\ analysis["a"].moves # << >>
  /\ analysis_ready("ab")

(***************************************************************************)
(* SpecCand: primary and alternatives merges on "a" (White to play next)   *)
(* by results whose moves score better or worse than the position, or that *)
(* list no move, so that entries share an order (stale at 999, or offset   *)
(* to the same rank) with different point losses.                          *)
(***************************************************************************)
CandRootScores == {1}
CandMoveScores == {0, 2}
CandMoveInfos ==
  {MoveInfo(m, o, v, s) : m \in MoveIds, o \in Orders, v \in Visits, s \in CandMoveScores}
CandJsons ==
  FullJsons(CandMoveInfos, CandRootScores) \cup RootOnlyJsons(CandRootScores)

(* the alternatives results list one move, searched to the full visits *)
CandAlternativesJsons ==
  {j \in CandJsons : Len(j["moveInfos"]) = 1 /\ j["moveInfos"][1]["visits"] = MaxVisits}

NextCand ==
  \/ Primary({"a"}, CandJsons)
  \/ Alternatives({"a"}, CandAlternativesJsons)

SpecCand == Init /\ [][NextCand]_vars

(***************************************************************************)
(* C20. For an analysis-ready node with move entries, candidate_moves has  *)
(* exactly one element per entry of analysis.moves, each the entry with    *)
(* the point loss sign(next player) * (root score - entry score), sorted   *)
(* ascending by order, and by point loss among entries of equal order.     *)
(***************************************************************************)
C20_CandidateMoves ==
  \A n \in Nodes :
    (analysis_ready(n) /\ analysis[n].moves # << >>) =>
      LET cands == candidate_moves(n)
          moves == analysis[n].moves
          sign == IF next_player(n) = "B" THEN 1 ELSE -1
          root_score == Val(analysis[n].root)["scoreLead"]
      IN /\ Len(cands) = Len(moves)
         /\ {cands[i]["move"] : i \in 1..Len(cands)} = Keys(moves)
         /\ \A i \in 1..Len(cands) :
              LET d == Entry(moves, cands[i]["move"]) IN
              /\ \A k \in DOMAIN d : cands[i][k] = d[k]
              /\ DOMAIN cands[i] = (DOMAIN d) \cup {"pointsLost"}
              /\ cands[i]["pointsLost"] = sign * (root_score - d["scoreLead"])
         /\ \A i, j \in 1..Len(cands) :
              i < j =>
                \/ cands[i]["order"] < cands[j]["order"]
                \/ /\ cands[i]["order"] = cands[j]["order"]
                   /\ cands[i]["pointsLost"] <= cands[j]["pointsLost"]

(* "a" is analysis-ready with two entries of equal order, the later one
   with the smaller point loss, so that it comes first *)
C20_Witness ==
  LET moves == analysis["a"].moves
      cands == candidate_moves("a")
  IN /\ analysis_ready("a") /\ Len(moves) = 2
     /\ moves[1][2]["order"] = moves[2][2]["order"]
     /\ cands[1]["move"] = moves[2][1]
     /\ cands[1]["pointsLost"] < cands[2]["pointsLost"]

====
